---- MODULE Spec2Model ----
(***************************************************************************)
(* Railway timetable conflict detection and resolution (src/main.py).      *)
(*                                                                         *)
(* TrainSchedule objects live in a heap indexed by object reference; the   *)
(* timetable is a Python list of references.  Python's == and != on        *)
(* TrainSchedule (no __eq__ defined) compare references, so the model      *)
(* compares references and never field values.                             *)
(*                                                                         *)
(* Spec      : main() calling resolve_conflicts(timetable, platforms)      *)
(*             once, one action per pass of the resolver's loops (the      *)
(*             three assignments of lines 131-133 are one update).         *)
(* FairSpec  : Spec with the single thread always running its next         *)
(*             statement.                                                  *)
(* SpecAgain : a caller that calls resolve_conflicts a second time.        *)
(* SpecPure  : a caller of the three pure functions intervals_overlap,     *)
(*             is_platform_free, detect_conflicts.                         *)
(* Times are integers (the code uses numbers; HH:MM inputs become hours).  *)
(***************************************************************************)
EXTENDS Integers, Sequences, FiniteSets, TLC

VARIABLES heap, timetable, platforms, pc, i, calls, entries, ret, query

vars == <<heap, timetable, platforms, pc, i, calls, entries, ret, query>>

----------------------------------------------------------------------------
(* The explored inputs *)

MaxTrains == 3

PlatformIds == {"P1", "P2"}
StartTimes == 0..1
Durations == 1..2
Priorities == 1..2

TrainIdOf(o) == <<"T", o>>

NoQuery == [fn |-> "none"]

----------------------------------------------------------------------------
(* TrainSchedule.__init__ *)

TrainSchedule(train_id, platform, start_time, end_time, priority) ==
    [train_id |-> train_id, platform |-> platform, start_time |-> start_time,
     end_time |-> end_time, priority |-> priority]

(* the second comparison made non-strict *)
intervals_overlap_closed_end(a, b) ==
    a.start_time < b.end_time /\ b.start_time <= a.end_time

(* both comparisons made non-strict: touching intervals overlap *)
intervals_overlap_touching(a, b) ==
    a.start_time <= b.end_time /\ b.start_time <= a.end_time

(* intervals_overlap(a, b), a and b being TrainSchedule values *)
intervals_overlap(a, b) ==
    a.start_time < b.end_time /\ b.start_time < a.end_time

(* the excluded train recognised by equal field values, not by reference *)
RECURSIVE is_platform_free_by_value(_, _, _, _, _, _, _)
is_platform_free_by_value(h, tt, k, platform, start, end, current_train) ==
    IF k > Len(tt) THEN TRUE
    ELSE IF current_train \in DOMAIN h /\ h[tt[k]] = h[current_train]
         THEN is_platform_free_by_value(h, tt, k + 1, platform, start, end, current_train)
    ELSE IF h[tt[k]].platform = platform
            /\ start < h[tt[k]].end_time /\ h[tt[k]].start_time < end
         THEN FALSE
    ELSE is_platform_free_by_value(h, tt, k + 1, platform, start, end, current_train)

(* is_platform_free: the for loop with its continue and early return *)
RECURSIVE is_platform_free_from(_, _, _, _, _, _, _)
is_platform_free_from(h, tt, k, platform, start, end, current_train) ==
    IF k > Len(tt) THEN TRUE
    ELSE IF tt[k] = current_train
         THEN is_platform_free_from(h, tt, k + 1, platform, start, end, current_train)
    ELSE IF h[tt[k]].platform = platform
            /\ start < h[tt[k]].end_time /\ h[tt[k]].start_time < end
         THEN FALSE
    ELSE is_platform_free_from(h, tt, k + 1, platform, start, end, current_train)

is_platform_free(h, tt, platform, start, end, current_train) ==
    is_platform_free_from(h, tt, 1, platform, start, end, current_train)

(* the platform comparison left out *)
RECURSIVE detect_inner_any_platform(_, _, _, _, _)
detect_inner_any_platform(h, tt, a, b, acc) ==
    IF b > Len(tt) THEN acc
    ELSE detect_inner_any_platform(h, tt, a, b + 1,
            IF intervals_overlap(h[tt[a]], h[tt[b]])
            THEN Append(acc, <<tt[a], tt[b]>>)
            ELSE acc)

(* detect_conflicts: the nested for loops appending to the conflicts list *)
RECURSIVE detect_inner(_, _, _, _, _)
detect_inner(h, tt, a, b, acc) ==
    IF b > Len(tt) THEN acc
    ELSE detect_inner(h, tt, a, b + 1,
            IF h[tt[a]].platform = h[tt[b]].platform
               /\ intervals_overlap(h[tt[a]], h[tt[b]])
            THEN Append(acc, <<tt[a], tt[b]>>)
            ELSE acc)

RECURSIVE detect_outer(_, _, _, _)
detect_outer(h, tt, a, acc) ==
    IF a > Len(tt) THEN acc
    ELSE detect_outer(h, tt, a + 1, detect_inner(h, tt, a, a + 1, acc))

detect_conflicts(h, tt) == detect_outer(h, tt, 1, <<>>)

----------------------------------------------------------------------------
(* resolve_conflicts: helpers *)

(* an unstable sort: an element goes before the elements of equal key *)
RECURSIVE insert_before_equal(_, _, _)
insert_before_equal(h, sorted, x) ==
    IF sorted = <<>> THEN <<x>>
    ELSE IF h[x].start_time <= h[sorted[Len(sorted)]].start_time
         THEN Append(insert_before_equal(h, SubSeq(sorted, 1, Len(sorted) - 1), x),
                     sorted[Len(sorted)])
         ELSE Append(sorted, x)

(* a sort through a mapping keyed by start_time: equal keys collapse *)
RECURSIVE insert_unique_key(_, _, _)
insert_unique_key(h, sorted, x) ==
    IF sorted = <<>> THEN <<x>>
    ELSE IF h[x].start_time = h[sorted[Len(sorted)]].start_time
         THEN Append(SubSeq(sorted, 1, Len(sorted) - 1), x)
    ELSE IF h[x].start_time < h[sorted[Len(sorted)]].start_time
         THEN Append(insert_unique_key(h, SubSeq(sorted, 1, Len(sorted) - 1), x),
                     sorted[Len(sorted)])
         ELSE Append(sorted, x)

(* list.sort(key=...) is stable: each element goes after the last        *)
(* element whose start_time is <= its own.                                 *)
RECURSIVE insert_by_start_time(_, _, _)
insert_by_start_time(h, sorted, x) ==
    IF sorted = <<>> THEN <<x>>
    ELSE IF h[x].start_time < h[sorted[Len(sorted)]].start_time
         THEN Append(insert_by_start_time(h, SubSeq(sorted, 1, Len(sorted) - 1), x),
                     sorted[Len(sorted)])
         ELSE Append(sorted, x)

RECURSIVE sort_by_start_time(_, _)
sort_by_start_time(h, tt) ==
    IF tt = <<>> THEN <<>>
    ELSE insert_by_start_time(h, sort_by_start_time(h, SubSeq(tt, 1, Len(tt) - 1)),
                              tt[Len(tt)])

(* conflicts = [t for t in timetable if t != train and ...] *)
RECURSIVE conflicts_from(_, _, _, _)
conflicts_from(h, tt, k, train) ==
    IF k > Len(tt) THEN <<>>
    ELSE IF /\ tt[k] # train
            /\ h[tt[k]].platform = h[train].platform
            /\ intervals_overlap(h[train], h[tt[k]])
         THEN <<tt[k]>> \o conflicts_from(h, tt, k + 1, train)
         ELSE conflicts_from(h, tt, k + 1, train)

conflicts_of(h, tt, train) == conflicts_from(h, tt, 1, train)

(* ties resolved for the last element with the smallest key *)
RECURSIVE min_by_priority_last(_, _)
min_by_priority_last(h, s) ==
    IF Len(s) = 1 THEN s[1]
    ELSE LET m == min_by_priority_last(h, SubSeq(s, 1, Len(s) - 1))
         IN IF h[s[Len(s)]].priority <= h[m].priority THEN s[Len(s)] ELSE m

(* min(seq, key=lambda x: x.priority): the first element with the         *)
(* smallest key                                                            *)
RECURSIVE min_by_priority(_, _)
min_by_priority(h, s) ==
    IF Len(s) = 1 THEN s[1]
    ELSE LET m == min_by_priority(h, SubSeq(s, 1, Len(s) - 1))
         IN IF h[s[Len(s)]].priority < h[m].priority THEN s[Len(s)] ELSE m

(* the train itself left out of the candidates *)
highest_priority_train_of_conflicts(h, tt, train) ==
    min_by_priority(h, conflicts_of(h, tt, train))

(* lines 97-99: min([train] + conflicts, key=lambda x: x.priority) *)
highest_priority_train(h, tt, train) ==
    min_by_priority(h, <<train>> \o conflicts_of(h, tt, train))

(* the end of the first train of s taken for the latest *)
latest_end_of_first(h, s) == h[s[1]].end_time

(* max(t.end_time for t in s), s non-empty *)
RECURSIVE latest_end(_, _)
latest_end(h, s) ==
    IF Len(s) = 1 THEN h[s[1]].end_time
    ELSE LET m == latest_end(h, Tail(s))
         IN IF m > h[s[1]].end_time THEN m ELSE h[s[1]].end_time

(* blocking = [t for t in timetable if t.platform == p and ...] *)
RECURSIVE blocking_from(_, _, _, _, _)
blocking_from(h, tt, k, train, p) ==
    IF k > Len(tt) THEN <<>>
    ELSE IF h[tt[k]].platform = p /\ intervals_overlap(h[train], h[tt[k]])
         THEN <<tt[k]>> \o blocking_from(h, tt, k + 1, train, p)
         ELSE blocking_from(h, tt, k + 1, train, p)

blocking_on(h, tt, train, p) == blocking_from(h, tt, 1, train, p)

(* the break after a free platform left out: the scan goes on *)
RECURSIVE scan_platforms_no_break(_, _, _, _, _, _)
scan_platforms_no_break(h, tt, train, ps, k, best) ==
    IF k > Len(ps) THEN best
    ELSE IF ps[k] = h[train].platform
         THEN scan_platforms_no_break(h, tt, train, ps, k + 1, best)
    ELSE LET blocking == blocking_on(h, tt, train, ps[k]) IN
         IF blocking = <<>>
         THEN scan_platforms_no_break(h, tt, train, ps, k + 1,
                                      [platform |-> ps[k], delay |-> 0])
         ELSE LET p_delay == latest_end(h, blocking) - h[train].start_time IN
              IF p_delay < best.delay
              THEN scan_platforms_no_break(h, tt, train, ps, k + 1,
                                           [platform |-> ps[k], delay |-> p_delay])
              ELSE scan_platforms_no_break(h, tt, train, ps, k + 1, best)

(* a platform of equal delay preferred to the best so far *)
RECURSIVE scan_platforms_not_strict(_, _, _, _, _, _)
scan_platforms_not_strict(h, tt, train, ps, k, best) ==
    IF k > Len(ps) THEN best
    ELSE IF ps[k] = h[train].platform
         THEN scan_platforms_not_strict(h, tt, train, ps, k + 1, best)
    ELSE LET blocking == blocking_on(h, tt, train, ps[k]) IN
         IF blocking = <<>>
         THEN [platform |-> ps[k], delay |-> 0]
         ELSE LET p_delay == latest_end(h, blocking) - h[train].start_time IN
              IF p_delay <= best.delay
              THEN scan_platforms_not_strict(h, tt, train, ps, k + 1,
                                             [platform |-> ps[k], delay |-> p_delay])
              ELSE scan_platforms_not_strict(h, tt, train, ps, k + 1, best)

(* for p in platforms: ... ; best is [platform, delay] *)
RECURSIVE scan_platforms(_, _, _, _, _, _)
scan_platforms(h, tt, train, ps, k, best) ==
    IF k > Len(ps) THEN best
    ELSE IF ps[k] = h[train].platform
         THEN scan_platforms(h, tt, train, ps, k + 1, best)
    ELSE LET blocking == blocking_on(h, tt, train, ps[k]) IN
         IF blocking = <<>>
         THEN [platform |-> ps[k], delay |-> 0]
         ELSE LET p_delay == latest_end(h, blocking) - h[train].start_time IN
              IF p_delay < best.delay
              THEN scan_platforms(h, tt, train, ps, k + 1,
                                  [platform |-> ps[k], delay |-> p_delay])
              ELSE scan_platforms(h, tt, train, ps, k + 1, best)

(* delay_needed measured from the train's end instead of its start *)
best_choice_from_end(h, tt, train, ps) ==
    LET delay_needed == latest_end(h, conflicts_of(h, tt, train)) - h[train].end_time
    IN scan_platforms(h, tt, train, ps, 1,
                      [platform |-> h[train].platform, delay |-> delay_needed])

best_choice(h, tt, train, ps) ==
    LET delay_needed == latest_end(h, conflicts_of(h, tt, train)) - h[train].start_time
    IN scan_platforms(h, tt, train, ps, 1,
                      [platform |-> h[train].platform, delay |-> delay_needed])

(* the end_time update left out *)
apply_move_start_only(h, train, best) ==
    [h EXCEPT ![train] = [@ EXCEPT !.platform = best.platform,
                                   !.start_time = @ + best.delay]]

(* train.platform = ...; train.start_time += ...; train.end_time += ... *)
apply_move(h, train, best) ==
    [h EXCEPT ![train] = [@ EXCEPT !.platform = best.platform,
                                   !.start_time = @ + best.delay,
                                   !.end_time = @ + best.delay]]

----------------------------------------------------------------------------
(* Inputs *)

RECURSIVE SeqsNoDup(_, _)
SeqsNoDup(S, n) ==
    IF n = 0 THEN {<<>>}
    ELSE LET shorter == SeqsNoDup(S, n - 1) IN
         shorter \cup {Append(s, x) : s \in {t \in shorter : Len(t) = n - 1},
                                      x \in S}

PlatformLists == {s \in SeqsNoDup(PlatformIds, Cardinality(PlatformIds)) :
                    \A a, b \in DOMAIN s : a # b => s[a] # s[b]}

TrainInputs ==
    [platform : PlatformIds, start : StartTimes, dur : Durations, prio : Priorities]

----------------------------------------------------------------------------
(* Spec: main() calling resolve_conflicts(timetable, platforms) once *)

Init ==
    /\ \E n \in 0..MaxTrains : \E f \in [1..n -> TrainInputs] :
         /\ timetable = [k \in 1..n |-> k]
         /\ heap = [o \in 1..n |->
                      TrainSchedule(TrainIdOf(o), f[o].platform, f[o].start,
                                    f[o].start + f[o].dur, f[o].prio)]
    /\ platforms \in PlatformLists
    /\ pc = "idle"
    /\ i = 0
    /\ calls = 0
    /\ entries = <<>>
    /\ ret = <<>>
    /\ query = NoQuery

(* line 83: timetable.sort(key=lambda x: x.start_time) *)
SortBody ==
    /\ pc = "idle"
    /\ entries' = Append(entries, [timetable |-> timetable, heap |-> heap])
    /\ timetable' = sort_by_start_time(heap, timetable)
    /\ i' = 0
    /\ pc' = "for"
    /\ ret' = <<>>
    /\ UNCHANGED <<heap, platforms, calls, query>>

Sort == calls = 0 /\ SortBody

(* line 85: for train in timetable, next element *)
ForNext ==
    /\ pc = "for"
    /\ i < Len(timetable)
    /\ i' = i + 1
    /\ pc' = "while"
    /\ UNCHANGED <<heap, timetable, platforms, calls, entries, ret, query>>

(* lines 87-95: no conflicts, break *)
WhileNoConflicts ==
    /\ pc = "while"
    /\ conflicts_of(heap, timetable, timetable[i]) = <<>>
    /\ pc' = "for"
    /\ UNCHANGED <<heap, timetable, platforms, i, calls, entries, ret, query>>

(* lines 97-102: another train has the smallest priority value, break *)
WhileYield ==
    /\ pc = "while"
    /\ conflicts_of(heap, timetable, timetable[i]) # <<>>
    /\ highest_priority_train(heap, timetable, timetable[i]) # timetable[i]
    /\ pc' = "for"
    /\ UNCHANGED <<heap, timetable, platforms, i, calls, entries, ret, query>>

(* the first conflicting train moved in place of the processed one *)
WhileMove_conflicting ==
    /\ pc = "while"
    /\ conflicts_of(heap, timetable, timetable[i]) # <<>>
    /\ highest_priority_train(heap, timetable, timetable[i]) = timetable[i]
    /\ LET other == conflicts_of(heap, timetable, timetable[i])[1] IN
          heap' = apply_move(heap, other,
                             best_choice(heap, timetable, other, platforms))
    /\ UNCHANGED <<timetable, platforms, pc, i, calls, entries, ret, query>>

(* an if in place of the while: the train is moved once and left *)
WhileMove_once ==
    /\ pc = "while"
    /\ conflicts_of(heap, timetable, timetable[i]) # <<>>
    /\ highest_priority_train(heap, timetable, timetable[i]) = timetable[i]
    /\ heap' = apply_move(heap, timetable[i],
                          best_choice(heap, timetable, timetable[i], platforms))
    /\ pc' = "for"
    /\ UNCHANGED <<timetable, platforms, i, calls, entries, ret, query>>

(* lines 104-133: choose platform and delay, move the train, loop again *)
WhileMove ==
    /\ pc = "while"
    /\ conflicts_of(heap, timetable, timetable[i]) # <<>>
    /\ highest_priority_train(heap, timetable, timetable[i]) = timetable[i]
    /\ heap' = apply_move(heap, timetable[i],
                          best_choice(heap, timetable, timetable[i], platforms))
    /\ UNCHANGED <<timetable, platforms, pc, i, calls, entries, ret, query>>

(* an outer convergence loop: start the pass again while conflicts remain *)
Return_when_conflict_free ==
    /\ pc = "for"
    /\ i >= Len(timetable)
    /\ IF detect_conflicts(heap, timetable) = <<>>
       THEN /\ ret' = timetable
            /\ calls' = calls + 1
            /\ pc' = "idle"
            /\ UNCHANGED <<heap, timetable, platforms, i, entries, query>>
       ELSE /\ i' = 0
            /\ UNCHANGED <<heap, timetable, platforms, pc, calls, entries, ret, query>>

(* line 135: return timetable *)
Return ==
    /\ pc = "for"
    /\ i >= Len(timetable)
    /\ ret' = timetable
    /\ calls' = calls + 1
    /\ pc' = "idle"
    /\ UNCHANGED <<heap, timetable, platforms, i, entries, query>>

Next == Sort \/ ForNext \/ WhileNoConflicts \/ WhileYield \/ WhileMove \/ Return

Spec == Init /\ [][Next]_vars

(* The interpreter always runs the next statement of the single thread *)
FairSpec == Spec /\ WF_vars(Next)

----------------------------------------------------------------------------
(* SpecAgain: a caller that calls resolve_conflicts a second time on the   *)
(* list the first call returned                                            *)

SortAgain == calls = 1 /\ SortBody

NextAgain == Next \/ SortAgain

SpecAgain == Init /\ [][NextAgain]_vars

----------------------------------------------------------------------------
(* SpecWide: resolve_conflicts called once on a station of three           *)
(* platforms: up to three trains of any priority, or four trains of one    *)
(* priority.                                                               *)

WidePlatformIds == {"P1", "P2", "P3"}
WideRefs == {1, 2, 3, 4}

WidePlatformLists ==
    {s \in SeqsNoDup(WidePlatformIds, Cardinality(WidePlatformIds)) :
        \A a, b \in DOMAIN s : a # b => s[a] # s[b]}

WideInputs(n) ==
    [platform : WidePlatformIds, start : StartTimes, dur : Durations,
     prio : IF n < Cardinality(WideRefs) THEN Priorities ELSE {1}]

InitWide ==
    /\ \E n \in 0..Cardinality(WideRefs) : \E f \in [1..n -> WideInputs(n)] :
         /\ timetable = [k \in 1..n |-> k]
         /\ heap = [o \in 1..n |->
                      TrainSchedule(TrainIdOf(o), f[o].platform, f[o].start,
                                    f[o].start + f[o].dur, f[o].prio)]
    /\ platforms \in WidePlatformLists
    /\ pc = "idle"
    /\ i = 0
    /\ calls = 0
    /\ entries = <<>>
    /\ ret = <<>>
    /\ query = NoQuery

SpecWide == InitWide /\ [][Next]_vars

----------------------------------------------------------------------------
(* SpecPure: a caller of the three pure functions.  Intervals are any pair *)
(* of numbers (start < end is not enforced by TrainSchedule); train ids    *)
(* are unique, or all equal as fetch_train_schedule makes them for the     *)
(* stops of one train.                                                     *)

PureRefs == {1, 2, 3}
PureTimes == 0..2

PureInputs == [platform : PlatformIds, start : PureTimes, end : PureTimes]

InitPure ==
    /\ \E n \in 0..Cardinality(PureRefs) : \E f \in [1..n -> PureInputs] :
       \E same_id \in BOOLEAN :
         /\ timetable = [k \in 1..n |-> k]
         /\ heap = [o \in 1..n |->
                      TrainSchedule(TrainIdOf(IF same_id THEN 1 ELSE o),
                                    f[o].platform, f[o].start, f[o].end, 1)]
    /\ platforms = <<>>
    /\ pc = "pure"
    /\ i = 0
    /\ calls = 0
    /\ entries = <<>>
    /\ ret = <<>>
    /\ query = NoQuery

CallIntervalsOverlap ==
    /\ pc = "pure"
    /\ \E a, b \in DOMAIN heap :
         query' = [fn |-> "intervals_overlap", a |-> a, b |-> b,
                   result |-> intervals_overlap(heap[a], heap[b])]
    /\ pc' = "answered"
    /\ UNCHANGED <<heap, timetable, platforms, i, calls, entries, ret>>

CallIsPlatformFree ==
    /\ pc = "pure"
    /\ \E p \in PlatformIds, s \in PureTimes, e \in PureTimes,
          x \in PureRefs :
         query' = [fn |-> "is_platform_free", platform |-> p, start |-> s,
                   end |-> e, current_train |-> x,
                   result |-> is_platform_free(heap, timetable, p, s, e, x)]
    /\ pc' = "answered"
    /\ UNCHANGED <<heap, timetable, platforms, i, calls, entries, ret>>

CallDetectConflicts ==
    /\ pc = "pure"
    /\ query' = [fn |-> "detect_conflicts",
                 result |-> detect_conflicts(heap, timetable)]
    /\ pc' = "answered"
    /\ UNCHANGED <<heap, timetable, platforms, i, calls, entries, ret>>

NextPure == CallIntervalsOverlap \/ CallIsPlatformFree \/ CallDetectConflicts

SpecPure == InitPure /\ [][NextPure]_vars

----------------------------------------------------------------------------
(* Vocabulary of the properties *)

(* resolve_conflicts has returned from its first call *)
Done == pc = "idle" /\ calls >= 1

(* The timetable and the trains as they were when the k-th call began *)
EntryHeap(k) == entries[k].heap
EntryTimetable(k) == entries[k].timetable

Duration(t) == t.end_time - t.start_time

SameInterval(t, u) == t.start_time = u.start_time /\ t.end_time = u.end_time

(* Two distinct trains of the list tt share a platform and overlap *)
InConflict(h, a, b) ==
    /\ a # b
    /\ h[a].platform = h[b].platform
    /\ h[a].start_time < h[b].end_time
    /\ h[b].start_time < h[a].end_time

Refs(tt) == {tt[k] : k \in DOMAIN tt}

ConflictFree(h, tt) == \A a, b \in Refs(tt) : ~InConflict(h, a, b)

OtherPlatform(p) == CHOOSE q \in PlatformIds : q # p

----------------------------------------------------------------------------
(* C1: priority dominance.  Two trains A and B on one platform with        *)
(* overlapping intervals, A having the smaller priority value, and the     *)
(* platform list holding only that platform: after resolve_conflicts A is  *)
(* unchanged and B starts at or after A's end with its duration kept.      *)
C1_PriorityDominance ==
    (Done /\ Len(timetable) = 2) =>
        \A a, b \in Refs(timetable) :
            LET e == EntryHeap(1) IN
            ( /\ InConflict(e, a, b)
              /\ e[a].priority < e[b].priority
              /\ platforms = <<e[a].platform>> )
            => /\ heap[a].platform = e[a].platform
               /\ SameInterval(heap[a], e[a])
               /\ heap[b].start_time >= heap[a].end_time
               /\ Duration(heap[b]) = Duration(e[b])

(* C2: free reassignment preferred over delay.  Same two trains, platform  *)
(* list [their platform, a second unoccupied platform]: afterwards B is on *)
(* the second platform with its entry interval and A is untouched.         *)
C2_FreeReassignment ==
    (Done /\ Len(timetable) = 2) =>
        \A a, b \in Refs(timetable) :
            LET e == EntryHeap(1) IN
            ( /\ InConflict(e, a, b)
              /\ e[a].priority < e[b].priority
              /\ platforms = <<e[a].platform, OtherPlatform(e[a].platform)>> )
            => /\ heap[b].platform = OtherPlatform(e[a].platform)
               /\ SameInterval(heap[b], e[b])
               /\ heap[a].platform = e[a].platform
               /\ SameInterval(heap[a], e[a])

----------------------------------------------------------------------------
(* C3: termination.  Every call of resolve_conflicts returns; each pass of *)
(* the inner loop that moves the train either delays its start to the end  *)
(* time of another train, strictly later than its start, or reassigns it   *)
(* with zero delay to a platform where it has no conflict.                 *)
MoveMakesProgress ==
    (pc = "while" /\ pc' = "while" /\ heap' # heap) =>
        LET t == timetable[i] IN
        \/ /\ heap'[t].start_time > heap[t].start_time
           /\ \E o \in Refs(timetable) \ {t} :
                 heap[o].end_time = heap'[t].start_time
        \/ /\ heap'[t].start_time = heap[t].start_time
           /\ heap'[t].platform # heap[t].platform
           /\ \A o \in Refs(timetable) : ~InConflict(heap', t, o)

C3_Termination == <>Done /\ [][MoveMakesProgress]_vars

(* Three trains of one priority on one platform with no platform to move   *)
(* to, one of them delayed twice in a row                                  *)
C3_Witness ==
    /\ pc = "while"
    /\ Len(timetable) = 3
    /\ platforms = <<>>
    /\ \A a, b \in Refs(timetable) :
          heap[a].priority = heap[b].priority /\ heap[a].platform = heap[b].platform
    /\ \E o \in Refs(timetable) :
          /\ o = timetable[i]
          /\ heap[o].start_time > EntryHeap(1)[o].start_time
          /\ \E u \in Refs(timetable) : InConflict(heap, o, u)

----------------------------------------------------------------------------
(* C4: delay monotonicity.  From entry to return every train's start and   *)
(* end are at least their entry values and its duration is its entry       *)
(* duration; every update adds one nonnegative amount to start and end.    *)
NeverEarlier ==
    entries # <<>> =>
        \A o \in DOMAIN heap :
            /\ heap[o].start_time >= EntryHeap(1)[o].start_time
            /\ heap[o].end_time >= EntryHeap(1)[o].end_time
            /\ Duration(heap[o]) = Duration(EntryHeap(1)[o])

ShiftsForward ==
    \A o \in DOMAIN heap :
        /\ heap'[o].start_time - heap[o].start_time >= 0
        /\ heap'[o].start_time - heap[o].start_time
             = heap'[o].end_time - heap[o].end_time

C4_DelayMonotonicity == []NeverEarlier /\ [][ShiftsForward]_vars

(* A train has been delayed twice *)
C4_Witness ==
    /\ Done
    /\ \E o \in DOMAIN heap :
          /\ heap[o].start_time > EntryHeap(1)[o].start_time + 2
          /\ heap[o].platform = EntryHeap(1)[o].platform

----------------------------------------------------------------------------
(* C5: no-conflict idempotence.  When no two distinct trains of the entry  *)
(* timetable share a platform with overlapping intervals, resolution       *)
(* changes no field of any train and only sorts the list; a second call    *)
(* on the result changes nothing, the list order included.                 *)
SortedByStart(h, tt) ==
    \A k, l \in DOMAIN tt : k < l => h[tt[k]].start_time <= h[tt[l]].start_time

C5_NoConflictIdempotence ==
    (entries # <<>> /\ ConflictFree(EntryHeap(1), EntryTimetable(1))) =>
        /\ heap = EntryHeap(1)
        /\ Len(timetable) = Len(EntryTimetable(1))
        /\ Refs(timetable) = Refs(EntryTimetable(1))
        /\ SortedByStart(heap, timetable)
        /\ Len(entries) = 2 => timetable = EntryTimetable(2)
        /\ (calls = 2 /\ pc = "idle") => ret = EntryTimetable(2)

(* A conflict-free list of three trains, two of them with equal start, not *)
(* sorted on entry, has gone through both calls                            *)
C5_Witness ==
    /\ calls = 2 /\ pc = "idle"
    /\ Len(timetable) = 3
    /\ ConflictFree(EntryHeap(1), EntryTimetable(1))
    /\ EntryTimetable(1) # timetable
    /\ \E a, b \in Refs(timetable) : a # b /\ heap[a].start_time = heap[b].start_time

----------------------------------------------------------------------------
(* C6: detect_conflicts returns exactly the pairs (timetable[a],           *)
(* timetable[b]), a < b, of trains on one platform with overlapping        *)
(* intervals, each once, ascending by a and then b; pairs on different     *)
(* platforms or with touching intervals are not reported.                  *)
PosOf(tt, o) == CHOOSE k \in DOMAIN tt : tt[k] = o

ConflictPairs(h, tt) ==
    {ab \in (DOMAIN tt) \X (DOMAIN tt) :
        /\ ab[1] < ab[2]
        /\ h[tt[ab[1]]].platform = h[tt[ab[2]]].platform
        /\ h[tt[ab[1]]].start_time < h[tt[ab[2]]].end_time
        /\ h[tt[ab[2]]].start_time < h[tt[ab[1]]].end_time}

LexLess(x, y) == x[1] < y[1] \/ (x[1] = y[1] /\ x[2] < y[2])

C6_DetectExact ==
    query.fn = "detect_conflicts" =>
        LET r == query.result
            pos(k) == <<PosOf(timetable, r[k][1]), PosOf(timetable, r[k][2])>>
        IN /\ Len(r) = Cardinality(ConflictPairs(heap, timetable))
           /\ \A k \in DOMAIN r :
                 /\ r[k][1] \in Refs(timetable) /\ r[k][2] \in Refs(timetable)
                 /\ pos(k) \in ConflictPairs(heap, timetable)
           /\ \A k, l \in DOMAIN r : k < l => LexLess(pos(k), pos(l))

(* Three trains on one platform: the first two only touch, the third       *)
(* overlaps both; the report is [(first, third), (second, third)]          *)
C6_Witness ==
    /\ query.fn = "detect_conflicts"
    /\ Len(timetable) = 3
    /\ \A a, b \in Refs(timetable) : heap[a].platform = heap[b].platform
    /\ heap[timetable[1]].start_time < heap[timetable[1]].end_time
    /\ heap[timetable[1]].end_time = heap[timetable[2]].start_time
    /\ heap[timetable[2]].start_time < heap[timetable[2]].end_time
    /\ query.result = << <<timetable[1], timetable[3]>>, <<timetable[2], timetable[3]>> >>

----------------------------------------------------------------------------
(* C7: is_platform_free returns true iff no train of the timetable other   *)
(* than the excluded train object is on that platform with                 *)
(* start < train.end_time and train.start_time < end.  Exclusion is by     *)
(* identity: another train with the same field values still blocks.        *)
Blocks(o, platform, start, end) ==
    /\ heap[o].platform = platform
    /\ start < heap[o].end_time
    /\ heap[o].start_time < end

C7_PlatformFreeExact ==
    query.fn = "is_platform_free" =>
        (query.result <=>
            ~\E o \in Refs(timetable) \ {query.current_train} :
                Blocks(o, query.platform, query.start, query.end))

(* The excluded train asks for its own platform and interval while a       *)
(* distinct train with identical field values is in the timetable: the     *)
(* answer is false                                                         *)
C7_Witness ==
    /\ query.fn = "is_platform_free"
    /\ query.current_train \in Refs(timetable)
    /\ LET x == heap[query.current_train] IN
          /\ x.start_time < x.end_time
          /\ query.platform = x.platform
          /\ query.start = x.start_time
          /\ query.end = x.end_time
          /\ \E o \in Refs(timetable) \ {query.current_train} : heap[o] = x
          /\ \A o \in Refs(timetable) \ {query.current_train} :
                Blocks(o, query.platform, query.start, query.end) => heap[o] = x
    /\ query.result = FALSE

----------------------------------------------------------------------------
(* C8: for intervals with start < end, intervals_overlap(a, b) holds       *)
(* exactly when a.start < b.end and b.start < a.end, which is exactly when *)
(* the larger start is below the smaller end (a common part of positive    *)
(* length); intervals that touch at an endpoint do not overlap.            *)
Larger(x, y) == IF x > y THEN x ELSE y
Smaller(x, y) == IF x < y THEN x ELSE y

C8_OverlapPositiveLength ==
    LET a == heap[query.a]
        b == heap[query.b]
    IN ( /\ query.fn = "intervals_overlap"
         /\ a.start_time < a.end_time
         /\ b.start_time < b.end_time )
       => /\ query.result <=> (a.start_time < b.end_time /\ b.start_time < a.end_time)
          /\ query.result <=>
                Larger(a.start_time, b.start_time) < Smaller(a.end_time, b.end_time)
          /\ (a.end_time = b.start_time \/ b.end_time = a.start_time)
                => ~query.result

(* Two distinct trains whose intervals touch: not overlapping *)
C8_Witness ==
    /\ query.fn = "intervals_overlap"
    /\ query.a # query.b
    /\ heap[query.a].start_time < heap[query.a].end_time
    /\ heap[query.b].start_time < heap[query.b].end_time
    /\ heap[query.a].end_time = heap[query.b].start_time
    /\ query.result = FALSE

----------------------------------------------------------------------------
(* C9: overlap symmetry.  For all intervals, those with start >= end       *)
(* included, intervals_overlap(a, b) equals intervals_overlap(b, a).       *)
C9_OverlapSymmetric ==
    query.fn = "intervals_overlap" =>
        query.result = intervals_overlap(heap[query.b], heap[query.a])

(* An interval with start >= end tested against a proper one that          *)
(* contains its start: the answer is true                                  *)
C9_Witness ==
    /\ query.fn = "intervals_overlap"
    /\ heap[query.a].start_time >= heap[query.a].end_time
    /\ heap[query.b].start_time < heap[query.b].end_time
    /\ query.result = TRUE

----------------------------------------------------------------------------
(* C10: resolve_conflicts creates and removes no train and changes no      *)
(* train's id or priority: the list holds the same train objects as on     *)
(* entry, each once, the returned list is that list, and only platform,    *)
(* start_time and end_time of a train can differ from entry.               *)
C10_Frame ==
    entries # <<>> =>
        /\ DOMAIN heap = DOMAIN EntryHeap(1)
        /\ \A o \in DOMAIN heap :
              /\ DOMAIN heap[o] = DOMAIN EntryHeap(1)[o]
              /\ heap[o].train_id = EntryHeap(1)[o].train_id
              /\ heap[o].priority = EntryHeap(1)[o].priority
        /\ Len(timetable) = Len(EntryTimetable(1))
        /\ Refs(timetable) = Refs(EntryTimetable(1))
        /\ Cardinality(Refs(timetable)) = Len(timetable)
        /\ Done => ret = timetable

(* The call has returned a reordered list in which one train changed       *)
(* platform and another was delayed                                        *)
C10_Witness ==
    /\ Done
    /\ timetable # EntryTimetable(1)
    /\ \E o \in DOMAIN heap : heap[o].platform # EntryHeap(1)[o].platform
    /\ \E o \in DOMAIN heap : heap[o].start_time > EntryHeap(1)[o].start_time

----------------------------------------------------------------------------
(* C11: the list order is the stable sort of the input list by the start   *)
(* times the trains had on entry: ascending entry start, equal entry       *)
(* starts in input order.  It is fixed by the sort and never changed       *)
(* afterwards, whatever happens to the start times.                        *)
C11_StableOrderByEntryStart ==
    entries # <<>> =>
        LET e == EntryHeap(1)
            et == EntryTimetable(1)
        IN /\ Len(timetable) = Len(et)
           /\ Refs(timetable) = Refs(et)
           /\ \A k, l \in DOMAIN timetable :
                 k < l =>
                    \/ e[timetable[k]].start_time < e[timetable[l]].start_time
                    \/ /\ e[timetable[k]].start_time = e[timetable[l]].start_time
                       /\ PosOf(et, timetable[k]) < PosOf(et, timetable[l])

(* The sort has reordered the input, two trains had equal entry starts,    *)
(* and the returned list is not ascending in the final start times         *)
C11_Witness ==
    /\ Done
    /\ timetable # EntryTimetable(1)
    /\ \E a, b \in Refs(timetable) :
          a # b /\ EntryHeap(1)[a].start_time = EntryHeap(1)[b].start_time
    /\ ~SortedByStart(heap, timetable)

----------------------------------------------------------------------------
(* C12: empty platform set.  When platforms is empty or holds only the     *)
(* processed train's platform, and the train has conflicts and the         *)
(* smallest priority value among them (ties included), the train stays on  *)
(* its platform and is delayed by exactly latest_end - start, latest_end   *)
(* being the largest end time of the trains conflicting with it; the       *)
(* step is always defined.                                                 *)
ConflictingWith(h, t) == {o \in Refs(timetable) : InConflict(h, t, o)}

MustMove(h, t) ==
    /\ ConflictingWith(h, t) # {}
    /\ \A o \in ConflictingWith(h, t) : h[t].priority <= h[o].priority

NoOtherPlatformListed(t) ==
    \A k \in DOMAIN platforms : platforms[k] = heap[t].platform

DelayOnly ==
    LET t == timetable[i] IN
    (pc = "while" /\ MustMove(heap, t) /\ NoOtherPlatformListed(t)) =>
        /\ pc' = "while"
        /\ heap'[t].platform = heap[t].platform
        /\ \E m \in ConflictingWith(heap, t) :
              /\ \A o \in ConflictingWith(heap, t) :
                    heap[o].end_time <= heap[m].end_time
              /\ heap'[t].start_time
                    = heap[t].start_time + (heap[m].end_time - heap[t].start_time)
              /\ heap'[t].end_time
                    = heap[t].end_time + (heap[m].end_time - heap[t].start_time)

DelayOnlyDefined ==
    (pc = "while" /\ MustMove(heap, timetable[i])
                  /\ NoOtherPlatformListed(timetable[i]))
        => ENABLED <<WhileMove>>_vars

C12_EmptyPlatformSet == []DelayOnlyDefined /\ [][DelayOnly]_vars

(* The first train of the list had two conflicting trains with different   *)
(* end times, no other platform was listed, and it has been delayed on     *)
(* its platform to the later of the two ends                               *)
C12_Witness ==
    /\ pc = "while" /\ i = 1
    /\ NoOtherPlatformListed(timetable[1])
    /\ LET t == timetable[1]
           e == EntryHeap(1)
       IN /\ heap[t].platform = e[t].platform
          /\ \E a, b \in ConflictingWith(e, t) :
                /\ e[a].end_time < e[b].end_time
                /\ \A o \in ConflictingWith(e, t) : e[o].end_time <= e[b].end_time
                /\ heap[t].start_time = e[b].end_time

----------------------------------------------------------------------------
(* C13: residual conflicts are possible.  resolve_conflicts is one forward *)
(* pass: the for loop steps from each train to the next and, after the     *)
(* last train, the function returns whether or not conflicts remain.       *)
(* There are inputs with differing priorities whose returned timetable     *)
(* still has a conflict reported by detect_conflicts (the witness).        *)
SingleForwardPass ==
    /\ (pc = "for" /\ i < Len(timetable)) => (pc' = "while" /\ i' = i + 1)
    /\ (pc = "for" /\ i >= Len(timetable)) =>
          (pc' = "idle" /\ calls' = calls + 1 /\ ret' = timetable)
    /\ pc = "while" => (i' = i /\ pc' \in {"while", "for"})
    /\ pc # "idle" => (timetable' = timetable /\ entries' = entries)

C13_SinglePassLeavesConflicts == [][SingleForwardPass]_vars

(* The call has returned a timetable of trains with differing priorities   *)
(* on which detect_conflicts reports a pair                                *)
C13_Witness ==
    /\ Done
    /\ detect_conflicts(heap, ret) # <<>>
    /\ \E a, b \in Refs(timetable) : heap[a].priority # heap[b].priority

----------------------------------------------------------------------------
(* C14: yield or move.  In a pass of the inner loop in which the train has *)
(* conflicts, the train is moved iff its priority value is <= that of      *)
(* every conflicting train (it wins ties); if a conflicting train has a    *)
(* strictly smaller value the loop exits at once and the pass changes      *)
(* nothing.                                                                *)
YieldOrMove ==
    LET t == timetable[i] IN
    (pc = "while" /\ ConflictingWith(heap, t) # {}) =>
        IF \A o \in ConflictingWith(heap, t) : heap[t].priority <= heap[o].priority
        THEN /\ pc' = "while"
             /\ heap'[t] # heap[t]
        ELSE /\ pc' = "for"
             /\ i' = i
             /\ heap' = heap

C14_YieldOrMove == [][YieldOrMove]_vars

(* The first train of the list conflicted only with trains of its own      *)
(* priority value and has been moved                                       *)
C14_Witness ==
    /\ pc = "while" /\ i = 1
    /\ LET t == timetable[1]
           e == EntryHeap(1)
       IN /\ ConflictingWith(e, t) # {}
          /\ \A o \in ConflictingWith(e, t) : e[o].priority = e[t].priority
          /\ heap[t] # e[t]

----------------------------------------------------------------------------
(* C15: first free platform wins.  When the train must move and some       *)
(* listed platform other than its own holds no train overlapping its       *)
(* current interval, the train goes to the first such platform of the      *)
(* list with start and end unchanged, whatever the other platforms would   *)
(* cost; it then has no conflict and the next pass leaves the loop.        *)
BlockingOn(h, t, p) ==
    {o \in Refs(timetable) :
        /\ h[o].platform = p
        /\ h[t].start_time < h[o].end_time
        /\ h[o].start_time < h[t].end_time}

FreePositions(h, t) ==
    {k \in DOMAIN platforms :
        platforms[k] # h[t].platform /\ BlockingOn(h, t, platforms[k]) = {}}

Lowest(S) == CHOOSE k \in S : \A l \in S : k <= l

FirstFreePlatform ==
    LET t == timetable[i] IN
    /\ (pc = "while" /\ MustMove(heap, t) /\ FreePositions(heap, t) # {}) =>
          /\ pc' = "while"
          /\ heap'[t].platform = platforms[Lowest(FreePositions(heap, t))]
          /\ SameInterval(heap'[t], heap[t])
          /\ ConflictingWith(heap', t) = {}
    /\ (pc = "while" /\ ConflictingWith(heap, t) = {}) =>
          (pc' = "for" /\ heap' = heap)

C15_FirstFreePlatform == [][FirstFreePlatform]_vars

(* The first listed platform was occupied during the train's interval,     *)
(* the second and the third were free: the train is on the second with     *)
(* its entry interval                                                      *)
C15_Witness ==
    /\ pc = "while" /\ i = 1
    /\ Len(platforms) = 3
    /\ LET t == timetable[1]
           e == EntryHeap(1)
       IN /\ MustMove(e, t)
          /\ FreePositions(e, t) = {2, 3}
          /\ heap[t].platform = platforms[2]
          /\ SameInterval(heap[t], e[t])

----------------------------------------------------------------------------
(* C16: minimum-delay choice.  When the train must move and no other       *)
(* listed platform is free for its current interval, the delay applied is  *)
(* the minimum of the same-platform delay and the delays of the other      *)
(* listed platforms; the platform changes only for a strictly smaller      *)
(* delay, the earliest listed platform winning among equals; platform,     *)
(* start and end change in the one step, and afterwards the train          *)
(* overlaps none of the trains that conflicted or blocked on the platform  *)
(* chosen.                                                                 *)
MaxEndOf(h, S) ==
    CHOOSE e \in {h[o].end_time : o \in S} : \A o \in S : h[o].end_time <= e

SamePlatformDelay(h, t) ==
    MaxEndOf(h, ConflictingWith(h, t)) - h[t].start_time

OtherPositions(h, t) ==
    {k \in DOMAIN platforms : platforms[k] # h[t].platform}

PlatformDelay(h, t, k) ==
    MaxEndOf(h, BlockingOn(h, t, platforms[k])) - h[t].start_time

CandidateDelays(h, t) ==
    {SamePlatformDelay(h, t)} \cup
    {PlatformDelay(h, t, k) : k \in OtherPositions(h, t)}

MinimumDelay(h, t) ==
    CHOOSE d \in CandidateDelays(h, t) : \A c \in CandidateDelays(h, t) : d <= c

MinimumDelayChoice ==
    LET t == timetable[i] IN
    (pc = "while" /\ MustMove(heap, t) /\ FreePositions(heap, t) = {}) =>
        LET same    == SamePlatformDelay(heap, t)
            least   == MinimumDelay(heap, t)
            cheaper == {k \in OtherPositions(heap, t) :
                           PlatformDelay(heap, t, k) = least}
            before  == IF heap'[t].platform = heap[t].platform
                       THEN ConflictingWith(heap, t)
                       ELSE BlockingOn(heap, t, heap'[t].platform)
        IN /\ pc' = "while"
           /\ heap'[t].start_time = heap[t].start_time + least
           /\ heap'[t].end_time = heap[t].end_time + least
           /\ least > 0
           /\ (same = least) => heap'[t].platform = heap[t].platform
           /\ (same > least) =>
                 heap'[t].platform = platforms[Lowest(cheaper)]
           /\ \A o \in before :
                 /\ heap'[o] = heap[o]
                 /\ ~InConflict(heap', t, o)

C16_MinimumDelayChoice == [][MinimumDelayChoice]_vars

(* The first train had to wait longer on its own platform than on either   *)
(* of the two other listed platforms, which cost the same: it is on the    *)
(* one listed first, later by that delay                                   *)
C16_Witness ==
    /\ pc = "while" /\ i = 1
    /\ LET t == timetable[1]
           e == EntryHeap(1)
       IN /\ MustMove(e, t)
          /\ FreePositions(e, t) = {}
          /\ Cardinality(OtherPositions(e, t)) = 2
          /\ \A k \in OtherPositions(e, t) :
                PlatformDelay(e, t, k) = MinimumDelay(e, t)
          /\ SamePlatformDelay(e, t) > MinimumDelay(e, t)
          /\ heap[t].platform = platforms[Lowest(OtherPositions(e, t))]
          /\ heap[t].start_time = e[t].start_time + MinimumDelay(e, t)
          /\ heap[t].end_time = e[t].end_time + MinimumDelay(e, t)

----------------------------------------------------------------------------
(* C17: per-train exit condition.  When the inner loop of a train exits,   *)
(* either no other train on its platform overlaps it, or some train on     *)
(* its platform overlapping it has a strictly smaller priority value; the  *)
(* loop never exits while the train conflicts only with trains of equal    *)
(* or larger priority value.                                               *)
MayExit(h, t) ==
    \/ ConflictingWith(h, t) = {}
    \/ \E o \in ConflictingWith(h, t) : h[o].priority < h[t].priority

ExitCondition ==
    LET t == timetable[i] IN
    /\ (pc = "while" /\ pc' = "for") =>
          (MayExit(heap, t) /\ heap' = heap /\ i' = i)
    /\ (pc = "while" /\ ~MayExit(heap, t)) => pc' = "while"

ExitedTrainMayExit ==
    (pc = "for" /\ i >= 1) => MayExit(heap, timetable[i])

C17_ExitCondition == [][ExitCondition]_vars /\ []ExitedTrainMayExit

(* A train was moved and its loop then exited while it overlapped a train  *)
(* of strictly smaller priority value on its platform                      *)
C17_Witness ==
    /\ pc = "for" /\ i >= 1
    /\ LET t == timetable[i] IN
          /\ heap[t].start_time > EntryHeap(1)[t].start_time
          /\ \E o \in ConflictingWith(heap, t) : heap[o].priority < heap[t].priority

----------------------------------------------------------------------------
(* C18: equal-priority conflict freedom.  If all trains have the same      *)
(* priority value then, whatever the platform list (empty and single       *)
(* lists included), the returned timetable holds no two distinct trains    *)
(* on one platform with overlapping intervals: detect_conflicts on it is   *)
(* empty.                                                                  *)
EqualPriorities(h) ==
    \A a, b \in DOMAIN h : h[a].priority = h[b].priority

C18_EqualPriorityConflictFree ==
    (Done /\ EqualPriorities(heap)) =>
        /\ detect_conflicts(heap, ret) = <<>>
        /\ ConflictFree(heap, ret)

(* Three trains of one priority value that all conflicted on entry have    *)
(* been resolved with no platform to move to                               *)
C18_Witness ==
    /\ Done
    /\ EqualPriorities(heap)
    /\ Len(ret) = 3
    /\ NoOtherPlatformListed(ret[1])
    /\ \A a, b \in Refs(ret) : a # b => InConflict(EntryHeap(1), a, b)
    /\ \E o \in Refs(ret) : heap[o].start_time > EntryHeap(1)[o].start_time

----------------------------------------------------------------------------
(* C19: single-writer frame.  Each train is processed in exactly one       *)
(* iteration of the outer loop, and during the iteration of a train only   *)
(* that train's platform, start_time and end_time are written: every       *)
(* train still has its entry platform and interval when its own iteration  *)
(* begins, and keeps what it has once its iteration has ended.             *)
SingleWriter ==
    /\ pc = "while" =>
          /\ \A o \in DOMAIN heap : o # timetable[i] => heap'[o] = heap[o]
          /\ heap'[timetable[i]].train_id = heap[timetable[i]].train_id
          /\ heap'[timetable[i]].priority = heap[timetable[i]].priority
    /\ pc # "while" => heap' = heap

OneIterationEach ==
    /\ pc \in {"for", "while"} => timetable' = timetable
    /\ pc = "while" => i' = i
    /\ (pc = "for" /\ pc' = "while") => i' = i + 1
    /\ (pc = "for" /\ pc' = "idle") => (i = Len(timetable) /\ i' = i)

UntouchedBeforeOwnIteration ==
    (pc \in {"for", "while"}) =>
        /\ i \in 0..Len(timetable)
        /\ Cardinality(Refs(timetable)) = Len(timetable)
        /\ \A k \in DOMAIN timetable :
              k > i => heap[timetable[k]] = EntryHeap(1)[timetable[k]]

C19_SingleWriterFrame ==
    /\ [][SingleWriter /\ OneIterationEach]_vars
    /\ []UntouchedBeforeOwnIteration

(* The first train has been moved; the second, still as on entry and in    *)
(* conflict, has just been moved in its own iteration, and the third is    *)
(* still as on entry                                                       *)
C19_Witness ==
    /\ pc = "while" /\ i = 2 /\ Len(timetable) = 3
    /\ heap[timetable[1]] # EntryHeap(1)[timetable[1]]
    /\ heap[timetable[2]] # EntryHeap(1)[timetable[2]]
    /\ heap[timetable[3]] = EntryHeap(1)[timetable[3]]
    /\ \E o \in Refs(timetable) : InConflict(EntryHeap(1), timetable[3], o)

====
